---- MODULE Spec2Model ----
(***************************************************************************)
(* State-machine model of opacus/privacy_engine.py: the PrivacyEngine that *)
(* wires a module, an optimizer and a data loader into their DP-aware      *)
(* counterparts, registers the accountant step hook and the pre-forward    *)
(* virtual-step hook, and reports the privacy spent.                       *)
(*                                                                         *)
(* RDPAccountant, DPOptimizer, GradSampleModule, DPDataLoader and          *)
(* get_noise_multiplier are imported by privacy_engine.py; their bodies    *)
(* are modelled from the specification (sections 4.1 - 4.3, 6).            *)
(***************************************************************************)
EXTENDS Integers, Sequences, FiniteSets, TLC

VARIABLES
    steps,        \* self.accountant.steps: the privacy ledger
    params,       \* module.parameters(): per parameter requires_grad, grad.has_noise, grad_sample
    optParams,    \* the parameters held by the user's torch optimizer
    modules,      \* the GradSampleModule objects created so far, each with its forward pre-hooks
    optimizers,   \* the DPOptimizer objects created so far
    loaders,      \* the DPDataLoader objects created so far
    graph,        \* TRUE once a forward pass has built an autograd graph
    updates,      \* number of real steps that ran the underlying parameter update
    keepLoader,   \* TRUE for a PrivacyEngineUnsafeKeepDataLoader instance
    result,       \* the last call: what it raised and what it returned
    search        \* a get_noise_multiplier call in progress: its arguments, bracket, iteration

vars == <<steps, params, optParams, modules, optimizers, loaders, graph, updates, keepLoader, result,
          search>>

-----------------------------------------------------------------------------
(* Bounds of the model *)

NumParams == 2      \* parameters of the user's model
MaxCalls == 2       \* make_private / make_private_with_epsilon calls on the engine
MaxSteps == 2       \* real steps recorded
MaxAccum == 2       \* virtual steps folded into one pending real step

ParamIds == 1..NumParams

-----------------------------------------------------------------------------
(* Values *)

NoError == "none"

\* sample_rate values: num/den stands for the product (1 / den) * num that
\* the code computes (line 36 and line 50).
Rate(num, den) == [num |-> num, den |-> den]

RawModule == [kind |-> "Module", id |-> 0]
RawOptimizer == [kind |-> "Optimizer", id |-> 0]
GSMRef(i) == [kind |-> "GradSampleModule", id |-> i]
DPOptRef(i) == [kind |-> "DPOptimizer", id |-> i]
RawLoader(n, d) == [kind |-> "DataLoader", id |-> 0, len |-> n, dataset |-> d]
DPLoaderRef(i) == [kind |-> "DPDataLoader", id |-> i, len |-> loaders[i].len, dataset |-> loaders[i].dataset]

\* The outcome of a call: the exception it raised and the value it returned
\* (a record whose fields depend on the call; None for a call returning nothing).
None == [none |-> TRUE]
Outcome(err, val) == [err |-> err, val |-> val]


-----------------------------------------------------------------------------
(* Exact rationals [num, den], den > 0, in lowest terms: the values of   *)
(* noise multipliers, privacy costs and epsilons.                         *)

RECURSIVE Gcd(_, _)
Gcd(a, b) == IF b = 0 THEN a ELSE Gcd(b, a % b)

Abs(a) == IF a < 0 THEN 0 - a ELSE a

Rat(a, b) ==
    LET g == Gcd(Abs(a), b)
    IN  [num |-> a \div g, den |-> b \div g]

RatAdd(x, y) ==
    LET g == Gcd(x.den, y.den)
    IN  Rat(x.num * (y.den \div g) + y.num * (x.den \div g), (x.den \div g) * y.den)
RatSub(x, y) == RatAdd(x, [num |-> 0 - y.num, den |-> y.den])
RatHalf(x) == Rat(x.num, 2 * x.den)

\* a/b <= c/d for naturals a, c and positive b, d, by comparing the
\* continued fractions (no product is formed).
RECURSIVE FracLeq(_, _, _, _)
FracLeq(a, b, c, d) ==
    IF a \div b # c \div d THEN a \div b < c \div d
    ELSE IF a % b = 0 THEN TRUE
    ELSE IF c % d = 0 THEN FALSE
    ELSE FracLeq(d, c % d, b, a % b)

RatLeq(x, y) ==
    IF x.num < 0 /\ y.num >= 0 THEN TRUE
    ELSE IF x.num >= 0 /\ y.num < 0 THEN FALSE
    ELSE IF x.num < 0 THEN FracLeq(0 - y.num, y.den, 0 - x.num, x.den)
    ELSE FracLeq(x.num, x.den, y.num, y.den)
RatLess(x, y) == ~RatLeq(y, x)

-----------------------------------------------------------------------------
(* Inputs of the calls *)

\* delta is [num, exp], the value num * e^(-exp): log(1/delta) = exp when num = 1.
Delta(num, exp) == [num |-> num, exp |-> exp]
DeltaValid(delta) == delta.num = 1 /\ delta.exp > 0
Deltas == {Delta(0, 1), Delta(1, 0), Delta(1, 1), Delta(1, 3)}
ValidDeltas == {d \in Deltas : DeltaValid(d)}

ClipNorms == {1}
LossReductions == {"mean"}

\* A training run
NoiseMultipliers == {Rat(0, 1), Rat(1, 1), Rat(2, 1)}
TrainLoaders == {RawLoader(1, 4), RawLoader(2, 4)}

\* Wrapping and calibration
SetupLoaders == {RawLoader(2, 5), RawLoader(3, 6), RawLoader(49, 49), RawLoader(49, 98)}
CalibrationLoaders == {RawLoader(1, 4), RawLoader(2, 5)}
SetupNoiseMultipliers == {Rat(1, 1), Rat(3, 2)}
TargetEpsilons == {Rat(1, 4), Rat(2, 1)}
TargetDeltas == {Delta(1, 3)}
Epochs == {1, 2}
SigmaBounds == {[min |-> None, max |-> None], [min |-> Rat(1, 1), max |-> Rat(2, 1)]}

-----------------------------------------------------------------------------
(* Python float arithmetic of lines 36-37.  A positive double is          *)
(* [man, exp]: man is the sequence of Precision mantissa bits, most       *)
(* significant first, man[1] = 1, and man[i] has weight 2^(exp + 1 - i).  *)
(* Every operation rounds to nearest, ties to even.                       *)

Precision == 53

\* The value of an expression, computed once.
Value(v) == CHOOSE x \in {v} : TRUE

\* 2^k modulo m, by repeated squaring.
RECURSIVE PowMod2(_, _)
PowMod2(k, m) ==
    IF k = 0 THEN 1 % m
    ELSE LET h == Value(PowMod2(k \div 2, m))
         IN  IF k % 2 = 0 THEN (h * h) % m ELSE (2 * h * h) % m

\* The number of binary digits of a natural number below 2^16.
BitLen(c) == CHOOSE l \in 0..16 : c < 2^l /\ (l = 0 \/ c >= 2^(l - 1))

\* The w low binary digits of v, most significant first.
BitsOf(v, w) == [k \in 1..w |-> (v \div 2^(w - k)) % 2]

\* The value of the binary digits bits[lo..hi].
RECURSIVE BitsValue(_, _, _)
BitsValue(bits, lo, hi) ==
    IF hi < lo THEN 0 ELSE 2 * BitsValue(bits, lo, hi - 1) + bits[hi]

\* The k-th binary digit (k >= 1) of r / n, n <= r < 2 * n, the first having weight 1.
QuotientDigit(r, n, k) == ((r * PowMod2(k - 1, 2 * n)) % (2 * n)) \div n

\* bits + 1, as a pair [bits, carry].
Inc(bits) ==
    LET zeros == {i \in 1..Len(bits) : bits[i] = 0}
    IN  IF zeros = {} THEN [bits |-> [i \in 1..Len(bits) |-> 0], carry |-> 1]
        ELSE LET z == CHOOSE i \in zeros : \A j \in zeros : j <= i
             IN  [bits |-> [i \in 1..Len(bits) |->
                               IF i < z THEN bits[i] ELSE IF i = z THEN 1 ELSE 0],
                  carry |-> 0]

\* Round the first Precision bits of a digit string up or down.
RoundMan(man, exp, guard, sticky) ==
    IF guard = 1 /\ (sticky \/ man[Precision] = 1)
    THEN LET up == Inc(man)
         IN  IF up.carry = 1
             THEN [man |-> <<1>> \o SubSeq(up.bits, 1, Precision - 1), exp |-> exp + 1]
             ELSE [man |-> up.bits, exp |-> exp]
    ELSE [man |-> man, exp |-> exp]

\* 1 / n in floating point, 1 <= n < 2^15.
FloatRecip(n) ==
    LET l == BitLen(n)
        pow2 == n = 2^(l - 1)
        e == IF pow2 THEN 1 - l ELSE 0 - l          \* 2^e <= 1/n < 2^(e+1)
        r == IF pow2 THEN n ELSE 2^l                \* 2^(-e), so n <= r < 2n
        man == Value([k \in 1..Precision |-> QuotientDigit(r, n, k)])
        guard == QuotientDigit(r, n, Precision + 1)
        sticky == (r * PowMod2(Precision + 1, n)) % n # 0
    IN  Value(RoundMan(man, e, guard, sticky))

\* The exact product bits[1..j] * d + carry, eight digits at a time, as a
\* digit string whose last digit has the weight of bits[j].
RECURSIVE MulBits(_, _, _, _)
MulBits(bits, d, j, carry) ==
    IF j = 0 THEN BitsOf(carry, BitLen(carry))
    ELSE LET w == IF j >= 8 THEN 8 ELSE j
             t == Value(d * BitsValue(bits, j - w + 1, j) + carry)
         IN  MulBits(bits, d, j - w, t \div 2^w) \o BitsOf(t % 2^w, w)

\* d * x in floating point, d an integer, 1 <= d < 2^15.
FloatMulInt(d, x) ==
    LET prod == Value(MulBits(x.man, d, Precision, 0))
        extra == Len(prod) - Precision
        tail == SubSeq(prod, Precision + 1, Len(prod))
    IN  IF extra = 0 THEN x
        ELSE Value(RoundMan(SubSeq(prod, 1, Precision), x.exp + extra, tail[1],
                            \E j \in 2..extra : tail[j] = 1))

\* int(x): the integer part of a positive double below 2^30.
FloatToInt(x) == IF x.exp < 0 THEN 0 ELSE BitsValue(x.man, 1, x.exp + 1)

\* int(len(data_loader.dataset) * sample_rate) with sample_rate = 1 / len(data_loader)
int_float_product(dataset_len, loader_len) ==
    FloatToInt(FloatMulInt(dataset_len, FloatRecip(loader_len)))

\* The same, computed once for the loaders the calls are given.
LoaderShapes ==
    {<<l.dataset, l.len>> : l \in TrainLoaders \cup SetupLoaders \cup CalibrationLoaders}
FloatProducts == [x \in LoaderShapes |-> int_float_product(x[1], x[2])] @@ <<>>

expected_batch_size_of(dataset_len, loader_len) ==
    IF <<dataset_len, loader_len>> \in LoaderShapes
    THEN FloatProducts[<<dataset_len, loader_len>>]
    ELSE int_float_product(dataset_len, loader_len)

-----------------------------------------------------------------------------
(* RDPAccountant.step: appends one (noise_multiplier, sample_rate) entry, *)
(* after validating both.                                                 *)

\* A variant that appends without validating.
RDPAccountant_step_novalidate(ledger, noise_multiplier, sample_rate) ==
    [steps |-> Append(ledger, [noise_multiplier |-> noise_multiplier, sample_rate |-> sample_rate]),
     err |-> NoError]

RDPAccountant_step(ledger, noise_multiplier, sample_rate) ==
    IF noise_multiplier.num <= 0 \/ sample_rate.num <= 0 \/ sample_rate.num > sample_rate.den
    THEN [steps |-> ledger, err |-> "InvalidParameterError"]
    ELSE [steps |-> Append(ledger, [noise_multiplier |-> noise_multiplier, sample_rate |-> sample_rate]),
          err |-> NoError]

(* accountant_hook: the step hook make_private attaches to the optimizer. *)
(* sample_rate is the closure's captured 1 / len(data_loader).            *)

\* A variant that records one entry per accumulated iteration.
accountant_hook_per_iteration(ledger, optim, sample_rate) ==
    LET one == RDPAccountant_step(ledger, optim.noise_multiplier, sample_rate)
    IN  IF optim.accumulated_iterations > 1 /\ one.err = NoError
        THEN RDPAccountant_step(one.steps, optim.noise_multiplier, sample_rate)
        ELSE one

\* A variant that records the base sample rate, whatever was accumulated.
accountant_hook_base_rate(ledger, optim, sample_rate) ==
    RDPAccountant_step(ledger, optim.noise_multiplier, sample_rate)

\* A variant that skips an entry equal to the last one recorded.
accountant_hook_dedup(ledger, optim, sample_rate) ==
    LET e == [noise_multiplier |-> optim.noise_multiplier,
              sample_rate |-> Rate(sample_rate.num * optim.accumulated_iterations, sample_rate.den)]
    IN  IF \E i \in 1..Len(ledger) : ledger[i] = e
        THEN [steps |-> ledger, err |-> NoError]
        ELSE RDPAccountant_step(ledger, e.noise_multiplier, e.sample_rate)

accountant_hook(ledger, optim, sample_rate) ==
    RDPAccountant_step(ledger,
                       optim.noise_multiplier,
                       Rate(sample_rate.num * optim.accumulated_iterations, sample_rate.den))

-----------------------------------------------------------------------------
(* DPOptimizer *)

\* The parameters a DPOptimizer works on: those of the wrapped torch optimizer.
OwnParams == {p \in ParamIds : p \in optParams /\ params[p].requires_grad}

\* The trainable parameters of the module.
Trainable == {p \in ParamIds : params[p].requires_grad}

\* virtual_step(): clip and sum the per-example gradients into the running
\* aggregate, count the iteration, free the per-example buffers.
DPOptimizer_virtual_step(ps, opts, o) ==
    [params |-> [p \in ParamIds |->
                    IF p \in OwnParams THEN [ps[p] EXCEPT !.grad_sample = FALSE] ELSE ps[p]],
     optimizers |-> [opts EXCEPT ![o].accumulated_iterations = @ + 1]]

\* GradSampleModule.zero_grad(): clears the gradients and the per-example
\* gradients of every parameter of the module.
GradSampleModule_zero_grad(ps) ==
    [p \in ParamIds |-> [ps[p] EXCEPT !.has_noise = FALSE, !.grad_sample = FALSE]]

-----------------------------------------------------------------------------
(* virtual_step_hook: the forward pre-hook make_private registers.  The   *)
(* loop over module.parameters() is Scan; it ends "raise", "found" (the   *)
(* break with has_grad_sample = True) or "none".                          *)

RECURSIVE Scan(_, _)
Scan(ps, i) ==
    IF i > NumParams THEN "none"
    ELSE IF ~ps[i].requires_grad THEN Scan(ps, i + 1)
    ELSE IF ps[i].has_noise THEN "raise"
    ELSE IF ps[i].grad_sample THEN "found"
    ELSE Scan(ps, i + 1)

\* A variant that makes the virtual step and leaves the gradients in place.
virtual_step_hook_no_clear(st, o) ==
    LET outcome == Scan(st.params, 1)
    IN  IF outcome = "raise"
        THEN [st EXCEPT !.err = "ValueError"]
        ELSE IF outcome = "found"
        THEN LET vs == DPOptimizer_virtual_step(st.params, st.optimizers, o)
             IN  [params |-> vs.params, optimizers |-> vs.optimizers, err |-> NoError]
        ELSE st

\* st = [params, optimizers, err]; o is the optimizer bound by partial().
virtual_step_hook(st, o) ==
    LET outcome == Scan(st.params, 1)
    IN  IF outcome = "raise"
        THEN [st EXCEPT !.err = "ValueError"]
        ELSE IF outcome = "found"
        THEN LET vs == DPOptimizer_virtual_step(st.params, st.optimizers, o)
             IN  [params |-> GradSampleModule_zero_grad(vs.params),
                  optimizers |-> vs.optimizers,
                  err |-> NoError]
        ELSE st

\* The forward pre-hooks of a module run in registration order; the first
\* one that raises aborts the forward call.
RECURSIVE RunHooks(_, _, _)
RunHooks(st, hooks, i) ==
    IF i > Len(hooks) \/ st.err # NoError THEN st
    ELSE RunHooks(virtual_step_hook(st, hooks[i]), hooks, i + 1)


-----------------------------------------------------------------------------
(* DPOptimizer.step: the real step.  With nothing accumulated it is a     *)
(* no-op.  Otherwise the noised aggregate is written to the gradients,    *)
(* the step hook runs once, accumulated_iterations is reset, the          *)
(* per-example gradients are freed and the wrapped optimizer updates the  *)
(* parameters.  An exception of the hook leaves the step there.           *)

\* A variant that runs the step on an empty window too.
DPOptimizer_step_always_hook(ps, opts, ledger, upd, o) ==
    LET hook == accountant_hook(ledger, opts[o], opts[o].step_hook)
    IN  [params |-> ps, optimizers |-> [opts EXCEPT ![o].accumulated_iterations = 0],
         steps |-> hook.steps, updates |-> upd + 1, err |-> hook.err]

\* A variant that leaves accumulated_iterations as it is after the update.
DPOptimizer_step_no_reset(ps, opts, ledger, upd, o) ==
    IF opts[o].accumulated_iterations = 0
    THEN [params |-> ps, optimizers |-> opts, steps |-> ledger, updates |-> upd, err |-> NoError]
    ELSE LET noised == [p \in ParamIds |->
                           IF p \in OwnParams THEN [ps[p] EXCEPT !.has_noise = TRUE] ELSE ps[p]]
             hook == accountant_hook(ledger, opts[o], opts[o].step_hook)
         IN  IF hook.err # NoError
             THEN [params |-> noised, optimizers |-> opts, steps |-> ledger,
                   updates |-> upd, err |-> hook.err]
             ELSE [params |-> [p \in ParamIds |->
                                  IF p \in OwnParams
                                  THEN [noised[p] EXCEPT !.grad_sample = FALSE]
                                  ELSE noised[p]],
                   optimizers |-> opts,
                   steps |-> hook.steps, updates |-> upd + 1, err |-> NoError]

DPOptimizer_step(ps, opts, ledger, upd, o) ==
    IF opts[o].accumulated_iterations = 0
    THEN [params |-> ps, optimizers |-> opts, steps |-> ledger, updates |-> upd, err |-> NoError]
    ELSE LET noised == [p \in ParamIds |->
                           IF p \in OwnParams THEN [ps[p] EXCEPT !.has_noise = TRUE] ELSE ps[p]]
             hook == accountant_hook(ledger, opts[o], opts[o].step_hook)
         IN  IF hook.err # NoError
             THEN [params |-> noised, optimizers |-> opts, steps |-> ledger,
                   updates |-> upd, err |-> hook.err]
             ELSE [params |-> [p \in ParamIds |->
                                  IF p \in OwnParams
                                  THEN [noised[p] EXCEPT !.grad_sample = FALSE]
                                  ELSE noised[p]],
                   optimizers |-> [opts EXCEPT ![o].accumulated_iterations = 0],
                   steps |-> hook.steps, updates |-> upd + 1, err |-> NoError]

-----------------------------------------------------------------------------
(* RDPAccountant.get_privacy_spent(delta) -> (epsilon, best alpha).       *)
(* delta is [num, exp], the value num * e^(-exp), so log(1/delta) = exp   *)
(* when num = 1.  The per-step Renyi divergence bound of the subsampled   *)
(* Gaussian mechanism is taken as alpha * q^2 / (2 * sigma^2), its exact  *)
(* value at q = 1.                                                        *)

RenyiOrders == {2, 3, 5}

StepRdp(step, alpha) ==
    Rat(alpha * step.sample_rate.num * step.sample_rate.num
              * step.noise_multiplier.den * step.noise_multiplier.den,
        2 * step.sample_rate.den * step.sample_rate.den
          * step.noise_multiplier.num * step.noise_multiplier.num)

RECURSIVE LedgerRdp(_, _, _)
LedgerRdp(ledger, alpha, i) ==
    IF i = 0 THEN Rat(0, 1)
    ELSE RatAdd(LedgerRdp(ledger, alpha, i - 1), StepRdp(ledger[i], alpha))

EpsAt(ledger, delta, alpha) ==
    RatAdd(LedgerRdp(ledger, alpha, Len(ledger)), Rat(delta.exp, alpha - 1))

get_privacy_spent(ledger, delta) ==
    IF ~DeltaValid(delta) THEN [err |-> "InvalidParameterError", ret |-> <<>>]
    ELSE IF ledger = <<>> THEN [err |-> "EmptyLedgerError", ret |-> <<>>]
    ELSE LET eps == [a \in RenyiOrders |-> EpsAt(ledger, delta, a)]
             best == CHOOSE a \in RenyiOrders :
                        /\ \A b \in RenyiOrders : RatLeq(eps[a], eps[b])
                        /\ \A b \in RenyiOrders : eps[b] = eps[a] => a <= b
         IN  [err |-> NoError, ret |-> <<eps[best], Rat(best, 1)>>]

\* A variant that returns element [1], the order the bound is attained at.
get_epsilon_best_alpha(ledger, delta) ==
    LET spent == get_privacy_spent(ledger, delta)
    IN  IF spent.err # NoError THEN [err |-> spent.err, ret |-> Rat(0, 1)]
        ELSE [err |-> NoError, ret |-> spent.ret[2]]

\* A variant that answers 0 where the accountant raises.
get_epsilon_or_zero(ledger, delta) ==
    LET spent == get_privacy_spent(ledger, delta)
    IN  IF spent.err # NoError THEN [err |-> NoError, ret |-> Rat(0, 1)]
        ELSE [err |-> NoError, ret |-> spent.ret[1]]

\* PrivacyEngine.get_epsilon: element [0] of the accountant's answer.
get_epsilon(ledger, delta) ==
    LET spent == get_privacy_spent(ledger, delta)
    IN  IF spent.err # NoError THEN [err |-> spent.err, ret |-> Rat(0, 1)]
        ELSE [err |-> NoError, ret |-> spent.ret[1]]


-----------------------------------------------------------------------------
(* get_noise_multiplier: the calibration search.  The schedule has        *)
(* epochs / sample_rate steps; each candidate sigma is evaluated on a     *)
(* disposable ledger holding the whole schedule.                          *)

DefaultSigmaMin == Rat(1, 2)
DefaultSigmaMax == Rat(4, 1)
Tolerance == Rat(1, 4)
MaxIterations == 4

ScheduleLedger(sigma, sample_rate, n_steps) ==
    [i \in 1..n_steps |-> [noise_multiplier |-> sigma, sample_rate |-> sample_rate]]

ScheduleEps(sigma, target_delta, sample_rate, n_steps) ==
    get_privacy_spent(ScheduleLedger(sigma, sample_rate, n_steps), target_delta).ret[1]

RECURSIVE Bisect(_, _, _, _, _, _, _)
Bisect(lo, hi, it, target_epsilon, target_delta, sample_rate, n_steps) ==
    IF RatLess(RatSub(hi, lo), Tolerance) \/ it >= MaxIterations THEN hi
    ELSE LET mid == RatHalf(RatAdd(lo, hi))
         IN  IF RatLeq(ScheduleEps(mid, target_delta, sample_rate, n_steps), target_epsilon)
             THEN Bisect(lo, mid, it + 1, target_epsilon, target_delta, sample_rate, n_steps)
             ELSE Bisect(mid, hi, it + 1, target_epsilon, target_delta, sample_rate, n_steps)

find_noise_multiplier(target_epsilon, target_delta, sample_rate, epochs, sigma_min, sigma_max) ==
    LET lo == IF sigma_min = None THEN DefaultSigmaMin ELSE sigma_min
        hi == IF sigma_max = None THEN DefaultSigmaMax ELSE sigma_max
        n_steps == (epochs * sample_rate.den) \div sample_rate.num
    IN  IF ~DeltaValid(target_delta) \/ target_epsilon.num <= 0
             \/ sample_rate.num <= 0 \/ sample_rate.num > sample_rate.den
             \/ lo.num <= 0 \/ ~RatLess(lo, hi) \/ n_steps < 1
        THEN [err |-> "InvalidParameterError", ret |-> None]
        ELSE IF ~RatLeq(ScheduleEps(hi, target_delta, sample_rate, n_steps), target_epsilon)
        THEN [err |-> "CalibrationError", ret |-> None]
        ELSE IF RatLeq(ScheduleEps(lo, target_delta, sample_rate, n_steps), target_epsilon)
        THEN [err |-> "CalibrationError", ret |-> None]
        ELSE [err |-> NoError,
              ret |-> Bisect(lo, hi, 0, target_epsilon, target_delta, sample_rate, n_steps)]

\* The same, computed once for the calibrations the calls ask for.
CalibrationInputs ==
    [target_epsilon : TargetEpsilons, target_delta : TargetDeltas,
     sample_rate : {Rate(1, l.len) : l \in CalibrationLoaders},
     epochs : Epochs, bounds : SigmaBounds]
Calibrations ==
    [x \in CalibrationInputs |->
        find_noise_multiplier(x.target_epsilon, x.target_delta, x.sample_rate, x.epochs,
                              x.bounds.min, x.bounds.max)] @@ <<>>

get_noise_multiplier(target_epsilon, target_delta, sample_rate, epochs, sigma_min, sigma_max) ==
    LET x == [target_epsilon |-> target_epsilon, target_delta |-> target_delta,
              sample_rate |-> sample_rate, epochs |-> epochs,
              bounds |-> [min |-> sigma_min, max |-> sigma_max]]
    IN  IF x \in CalibrationInputs THEN Calibrations[x]
        ELSE find_noise_multiplier(target_epsilon, target_delta, sample_rate, epochs,
                                   sigma_min, sigma_max)

-----------------------------------------------------------------------------
(* PrivacyEngine._prepare_model, _prepare_data_loader, _prepare_optimizer *)
(* Each returns the objects after the call and the reference it returns.  *)

_prepare_model(mods, module, loss_reduction) ==
    IF module.kind = "GradSampleModule"
    THEN [modules |-> mods, ret |-> module]
    ELSE [modules |-> Append(mods, [hooks |-> <<>>, loss_reduction |-> loss_reduction]),
          ret |-> GSMRef(Len(mods) + 1)]

\* A variant whose wrapper reports one batch more than the loader it wraps.
DPDataLoader_from_data_loader_rebatched(lds, data_loader) ==
    [loaders |-> Append(lds, [len |-> data_loader.len + 1, dataset |-> data_loader.dataset]),
     ret |-> [kind |-> "DPDataLoader", id |-> Len(lds) + 1,
              len |-> data_loader.len + 1, dataset |-> data_loader.dataset]]

\* DPDataLoader.from_data_loader: a Poisson-sampling loader over the same
\* dataset with the same number of batches.
DPDataLoader_from_data_loader(lds, data_loader) ==
    [loaders |-> Append(lds, [len |-> data_loader.len, dataset |-> data_loader.dataset]),
     ret |-> [kind |-> "DPDataLoader", id |-> Len(lds) + 1,
              len |-> data_loader.len, dataset |-> data_loader.dataset]]

_prepare_data_loader(lds, keep, data_loader) ==
    IF keep THEN [loaders |-> lds, ret |-> data_loader]      \* PrivacyEngineUnsafeKeepDataLoader
    ELSE IF data_loader.kind = "DPDataLoader" THEN [loaders |-> lds, ret |-> data_loader]
    ELSE DPDataLoader_from_data_loader(lds, data_loader)

\* A variant that wraps whatever it is given, a DPOptimizer included.
_prepare_optimizer_nested(opts, optimizer, noise_multiplier, max_grad_norm, expected_batch_size, loss_reduction) ==
    [optimizers |-> Append(opts, [optimizer |-> optimizer,
                                  noise_multiplier |-> noise_multiplier,
                                  max_grad_norm |-> max_grad_norm,
                                  expected_batch_size |-> expected_batch_size,
                                  loss_reduction |-> loss_reduction,
                                  accumulated_iterations |-> 0,
                                  step_hook |-> None]),
     ret |-> DPOptRef(Len(opts) + 1)]

_prepare_optimizer(opts, optimizer, noise_multiplier, max_grad_norm, expected_batch_size, loss_reduction) ==
    LET inner == IF optimizer.kind = "DPOptimizer" THEN opts[optimizer.id].optimizer
                 ELSE optimizer
    IN  [optimizers |-> Append(opts, [optimizer |-> inner,
                                      noise_multiplier |-> noise_multiplier,
                                      max_grad_norm |-> max_grad_norm,
                                      expected_batch_size |-> expected_batch_size,
                                      loss_reduction |-> loss_reduction,
                                      accumulated_iterations |-> 0,
                                      step_hook |-> None]),
         ret |-> DPOptRef(Len(opts) + 1)]

-----------------------------------------------------------------------------
(* PrivacyEngine.make_private.  h = [modules, optimizers, loaders] are    *)
(* the objects before the call.                                           *)

make_private(h, keep, module, optimizer, data_loader, noise_multiplier, max_grad_norm, loss_reduction) ==
    LET pm == _prepare_model(h.modules, module, loss_reduction)
        pl == _prepare_data_loader(h.loaders, keep, data_loader)
        sample_rate == Rate(1, pl.ret.len)
        expected_batch_size == expected_batch_size_of(pl.ret.dataset, pl.ret.len)
        po == _prepare_optimizer(h.optimizers, optimizer, noise_multiplier, max_grad_norm,
                                 expected_batch_size, loss_reduction)
    IN  [modules |-> [pm.modules EXCEPT ![pm.ret.id].hooks = Append(@, po.ret.id)],
         optimizers |-> [po.optimizers EXCEPT ![po.ret.id].step_hook = sample_rate],
         loaders |-> pl.loaders,
         err |-> NoError,
         ret |-> [module |-> pm.ret, optimizer |-> po.ret, data_loader |-> pl.ret]]

(* PrivacyEngine.make_private_with_epsilon *)

\* A variant that calibrates for a single epoch whatever epochs is.
make_private_with_epsilon_one_epoch(h, keep, module, optimizer, data_loader, target_epsilon, target_delta, epochs, max_grad_norm, loss_reduction, sigma_min, sigma_max) ==
    LET sample_rate == Rate(1, data_loader.len)
        sigma == get_noise_multiplier(target_epsilon, target_delta, sample_rate, 1,
                                      sigma_min, sigma_max)
    IN  IF sigma.err # NoError
        THEN [modules |-> h.modules, optimizers |-> h.optimizers, loaders |-> h.loaders,
              err |-> sigma.err, ret |-> None]
        ELSE make_private(h, keep, module, optimizer, data_loader, sigma.ret,
                          max_grad_norm, loss_reduction)

\* A variant that wraps the module before it calibrates.
make_private_with_epsilon_wrap_first(h, keep, module, optimizer, data_loader, target_epsilon, target_delta, epochs, max_grad_norm, loss_reduction, sigma_min, sigma_max) ==
    LET pm == _prepare_model(h.modules, module, loss_reduction)
        sample_rate == Rate(1, data_loader.len)
        sigma == get_noise_multiplier(target_epsilon, target_delta, sample_rate, epochs,
                                      sigma_min, sigma_max)
    IN  IF sigma.err # NoError
        THEN [modules |-> pm.modules, optimizers |-> h.optimizers, loaders |-> h.loaders,
              err |-> sigma.err, ret |-> None]
        ELSE make_private(h, keep, module, optimizer, data_loader, sigma.ret,
                          max_grad_norm, loss_reduction)

make_private_with_epsilon(h, keep, module, optimizer, data_loader, target_epsilon, target_delta, epochs, max_grad_norm, loss_reduction, sigma_min, sigma_max) ==
    LET sample_rate == Rate(1, data_loader.len)
        sigma == get_noise_multiplier(target_epsilon, target_delta, sample_rate, epochs,
                                      sigma_min, sigma_max)
    IN  IF sigma.err # NoError
        THEN [modules |-> h.modules, optimizers |-> h.optimizers, loaders |-> h.loaders,
              err |-> sigma.err, ret |-> None]
        ELSE make_private(h, keep, module, optimizer, data_loader, sigma.ret,
                          max_grad_norm, loss_reduction)


-----------------------------------------------------------------------------
(* The calls of a training script *)

Heap == [modules |-> modules, optimizers |-> optimizers, loaders |-> loaders]

ModuleRefs == {RawModule} \cup {GSMRef(i) : i \in 1..Len(modules)}
OptimizerRefs == {RawOptimizer} \cup {DPOptRef(i) : i \in 1..Len(optimizers)}
DPLoaderRefs == {DPLoaderRef(i) : i \in 1..Len(loaders)}

\* A variant in which every make_private call starts a fresh accountant.
MakePrivate_new_accountant(module, optimizer, data_loader, noise_multiplier, max_grad_norm, loss_reduction) ==
    /\ Len(optimizers) < MaxCalls
    /\ LET r == make_private(Heap, keepLoader, module, optimizer, data_loader,
                             noise_multiplier, max_grad_norm, loss_reduction)
       IN  /\ modules' = r.modules
           /\ optimizers' = r.optimizers
           /\ loaders' = r.loaders
           /\ result' = Outcome(r.err, r.ret)
    /\ steps' = <<>>
    /\ UNCHANGED <<params, optParams, graph, updates, keepLoader, search>>

\* engine.make_private(module, optimizer, data_loader, noise_multiplier, max_grad_norm)
MakePrivate(module, optimizer, data_loader, noise_multiplier, max_grad_norm, loss_reduction) ==
    /\ Len(optimizers) < MaxCalls
    /\ LET r == make_private(Heap, keepLoader, module, optimizer, data_loader,
                             noise_multiplier, max_grad_norm, loss_reduction)
       IN  /\ modules' = r.modules
           /\ optimizers' = r.optimizers
           /\ loaders' = r.loaders
           /\ result' = Outcome(r.err, r.ret)
    /\ UNCHANGED <<steps, params, optParams, graph, updates, keepLoader, search>>

\* engine.make_private_with_epsilon(...)
MakePrivateWithEpsilon(module, optimizer, data_loader, target_epsilon, target_delta, epochs, max_grad_norm, loss_reduction, sigma_min, sigma_max) ==
    /\ Len(optimizers) < MaxCalls
    /\ LET r == make_private_with_epsilon(Heap, keepLoader, module, optimizer, data_loader,
                                          target_epsilon, target_delta, epochs,
                                          max_grad_norm, loss_reduction, sigma_min, sigma_max)
       IN  /\ modules' = r.modules
           /\ optimizers' = r.optimizers
           /\ loaders' = r.loaders
           /\ result' = Outcome(r.err, r.ret)
    /\ UNCHANGED <<steps, params, optParams, graph, updates, keepLoader, search>>

\* module(x): the forward pre-hooks run, then the forward pass builds a graph.
Forward(m) ==
    /\ m \in 1..Len(modules)
    /\ LET st == RunHooks([params |-> params, optimizers |-> optimizers, err |-> NoError],
                          modules[m].hooks, 1)
       IN  /\ \A o \in 1..Len(optimizers) : st.optimizers[o].accumulated_iterations <= MaxAccum
           /\ params' = st.params
           /\ optimizers' = st.optimizers
           /\ graph' = IF st.err = NoError THEN TRUE ELSE graph
           /\ result' = Outcome(st.err, None)
    /\ UNCHANGED <<steps, optParams, modules, loaders, updates, keepLoader, search>>

\* loss.backward() on the graph of an earlier forward pass (the script may
\* keep it with retain_graph): per-example gradients appear on the
\* trainable parameters.
Backward ==
    /\ graph
    /\ params' = [p \in ParamIds |->
                     IF params[p].requires_grad THEN [params[p] EXCEPT !.grad_sample = TRUE]
                     ELSE params[p]]
    /\ result' = Outcome(NoError, None)
    /\ UNCHANGED <<steps, optParams, modules, optimizers, loaders, graph, updates, keepLoader, search>>

\* optimizer.virtual_step(), called by the training loop.
VirtualStep(o) ==
    /\ o \in 1..Len(optimizers)
    /\ \E p \in OwnParams : params[p].grad_sample
    /\ optimizers[o].accumulated_iterations < MaxAccum
    /\ LET vs == DPOptimizer_virtual_step(params, optimizers, o)
       IN  /\ params' = vs.params
           /\ optimizers' = vs.optimizers
    /\ result' = Outcome(NoError, None)
    /\ UNCHANGED <<steps, optParams, modules, loaders, graph, updates, keepLoader, search>>

\* optimizer.step(): the real step.
Step(o) ==
    /\ o \in 1..Len(optimizers)
    /\ Len(steps) < MaxSteps
    /\ LET r == DPOptimizer_step(params, optimizers, steps, updates, o)
       IN  /\ params' = r.params
           /\ optimizers' = r.optimizers
           /\ steps' = r.steps
           /\ updates' = r.updates
           /\ result' = Outcome(r.err, None)
    /\ UNCHANGED <<optParams, modules, loaders, graph, keepLoader, search>>

\* module.zero_grad(), called by the training loop.
ZeroGrad(m) ==
    /\ m \in 1..Len(modules)
    /\ params' = GradSampleModule_zero_grad(params)
    /\ result' = Outcome(NoError, None)
    /\ UNCHANGED <<steps, optParams, modules, optimizers, loaders, graph, updates, keepLoader, search>>

\* engine.get_epsilon(delta)
GetEpsilon(delta) ==
    /\ LET r == get_epsilon(steps, delta)
       IN  result' = Outcome(r.err, [eps |-> r.ret])
    /\ UNCHANGED <<steps, params, optParams, modules, optimizers, loaders, graph, updates,
                   keepLoader, search>>

\* The model's parameters: all trainable or the first one frozen; the
\* torch optimizer holds all trainable parameters or all but the first.
ParamConfigs ==
    {c \in [frozen : {{}, {1}}, held : {ParamIds, ParamIds \ {1}, ParamIds \ {1, 2}}] :
        c.held \ c.frozen # {} /\ c.held \cap c.frozen = {}}

\* The state after PrivacyEngine(): an empty ledger, nothing wrapped.
Constructed ==
    /\ steps = <<>>
    /\ \E c \in ParamConfigs :
          /\ params = [p \in ParamIds |-> [requires_grad |-> p \notin c.frozen,
                                           has_noise |-> FALSE, grad_sample |-> FALSE]]
          /\ optParams = c.held
    /\ modules = <<>>
    /\ optimizers = <<>>
    /\ loaders = <<>>
    /\ graph = FALSE
    /\ updates = 0
    /\ result = Outcome(NoError, None)

\* A training run: the script wraps its model, optimizer and data loader
\* once with a PrivacyEngine, then trains.
Init == Constructed /\ keepLoader = FALSE /\ search = None

Next ==
    \/ /\ optimizers = <<>>
       /\ \E data_loader \in TrainLoaders, noise_multiplier \in NoiseMultipliers,
             max_grad_norm \in ClipNorms, loss_reduction \in LossReductions :
             MakePrivate(RawModule, RawOptimizer, data_loader, noise_multiplier,
                         max_grad_norm, loss_reduction)
    \/ \E m \in 1..Len(modules) : Forward(m)
    \/ Backward
    \/ \E o \in 1..Len(optimizers) : VirtualStep(o)
    \/ \E o \in 1..Len(optimizers) : Step(o)
    \/ \E m \in 1..Len(modules) : ZeroGrad(m)
    \/ \E delta \in Deltas : GetEpsilon(delta)

Spec == Init /\ [][Next]_vars

\* Wrapping: any sequence of make_private calls on one engine of either
\* class, on raw objects or on the wrappers earlier calls returned.
InitSetup == Constructed /\ keepLoader \in BOOLEAN /\ optParams = ParamIds /\ search = None

NextSetup ==
    \E module \in ModuleRefs, optimizer \in OptimizerRefs,
       data_loader \in SetupLoaders \cup DPLoaderRefs,
       noise_multiplier \in SetupNoiseMultipliers, max_grad_norm \in ClipNorms,
       loss_reduction \in LossReductions :
       MakePrivate(module, optimizer, data_loader, noise_multiplier, max_grad_norm,
                   loss_reduction)

SpecSetup == InitSetup /\ [][NextSetup]_vars

\* The wrappers of the loaders calibration is run for.
CalibrationWrappers ==
    {r \in DPLoaderRefs : \E l \in CalibrationLoaders : l.len = r.len /\ l.dataset = r.dataset}

\* Calibrated wrapping: any sequence of make_private_with_epsilon calls, on
\* raw objects or on the wrappers earlier calls returned.
NextCalibrate ==
    \E module \in ModuleRefs, optimizer \in OptimizerRefs,
       data_loader \in CalibrationLoaders \cup CalibrationWrappers,
       target_epsilon \in TargetEpsilons, target_delta \in TargetDeltas,
       epochs \in Epochs, max_grad_norm \in ClipNorms,
       loss_reduction \in LossReductions, bounds \in SigmaBounds :
       MakePrivateWithEpsilon(module, optimizer, data_loader, target_epsilon,
                              target_delta, epochs, max_grad_norm, loss_reduction,
                              bounds.min, bounds.max)

SpecCalibrate == InitSetup /\ [][NextCalibrate]_vars

\* Re-wrapping during training: the script may call make_private again,
\* on the raw module and optimizer or on the wrappers earlier calls
\* returned, between the steps of its training loop. The loader passed is
\* the script's own each time.
RewrapLoaders == {RawLoader(2, 4)}
\* The k-th call asks for noise multiplier k, so a ledger entry tells which
\* call's optimizer recorded it.
RewrapNoiseMultipliers == {Rat(Len(optimizers) + 1, 1)}

InitRewrap == Constructed /\ keepLoader = FALSE /\ optParams = ParamIds /\ search = None

NextRewrap ==
    \/ \E module \in ModuleRefs, optimizer \in OptimizerRefs,
          data_loader \in RewrapLoaders,
          noise_multiplier \in RewrapNoiseMultipliers, max_grad_norm \in ClipNorms,
          loss_reduction \in LossReductions :
          MakePrivate(module, optimizer, data_loader, noise_multiplier, max_grad_norm,
                      loss_reduction)
    \/ \E m \in 1..Len(modules) : Forward(m)
    \/ Backward
    \/ \E o \in 1..Len(optimizers) : VirtualStep(o)
    \/ \E o \in 1..Len(optimizers) : Step(o)
    \/ \E m \in 1..Len(modules) : ZeroGrad(m)

SpecRewrap == InitRewrap /\ [][NextRewrap]_vars

-----------------------------------------------------------------------------
(* The calibration search, one bracket update at a time.  search holds    *)
(* the arguments of the get_noise_multiplier call, the bracket [lo, hi],  *)
(* the iterations made and where the call stands: "called", "searching",  *)
(* "returned" (ret is the noise multiplier) or "raised" (err says what).  *)

SearchEpsilons == {Rat(1, 4), Rat(1, 1), Rat(2, 1), Rat(4, 1)}
SearchDeltas == {Delta(1, 1), Delta(1, 3), Delta(1, 0)}
SearchRates == {Rate(1, 1), Rate(1, 2)}
SearchBounds == SigmaBounds \cup {[min |-> Rat(1, 2), max |-> Rat(8, 1)],
                                  [min |-> Rat(2, 1), max |-> Rat(1, 1)]}
SearchInputs ==
    [target_epsilon : SearchEpsilons, target_delta : SearchDeltas,
     sample_rate : SearchRates, epochs : Epochs, bounds : SearchBounds]

SearchLo(x) == IF x.bounds.min = None THEN DefaultSigmaMin ELSE x.bounds.min
SearchHi(x) == IF x.bounds.max = None THEN DefaultSigmaMax ELSE x.bounds.max
SearchSteps(x) == (x.epochs * x.sample_rate.den) \div x.sample_rate.num

\* epsilon of the whole schedule at noise multiplier sigma, computed once
\* for the points a bisection of the brackets above can visit.
SearchSigmas == {Rat(k, 32) : k \in 1..256}
SearchSchedules ==
    [target_delta : {d \in SearchDeltas : DeltaValid(d)}, sample_rate : SearchRates,
     epochs : Epochs, sigma : SearchSigmas]
SearchEpsilon ==
    [y \in SearchSchedules |->
        ScheduleEps(y.sigma, y.target_delta, y.sample_rate,
                    (y.epochs * y.sample_rate.den) \div y.sample_rate.num)] @@ <<>>

SearchEps(x, sigma) ==
    LET y == [target_delta |-> x.target_delta, sample_rate |-> x.sample_rate,
              epochs |-> x.epochs, sigma |-> sigma]
    IN  IF y \in SearchSchedules THEN SearchEpsilon[y]
        ELSE ScheduleEps(sigma, x.target_delta, x.sample_rate, SearchSteps(x))

SearchCalled(x) ==
    [status |-> "called", input |-> x, lo |-> Rat(0, 1), hi |-> Rat(0, 1), it |-> 0,
     err |-> NoError, ret |-> None]

\* A variant that looks at the bracket width only.
SearchStop_width_only(sr) == RatLess(RatSub(sr.hi, sr.lo), Tolerance)

\* The loop condition: the bracket is narrower than the tolerance or the
\* iterations are used up.
SearchStop(sr) == RatLess(RatSub(sr.hi, sr.lo), Tolerance) \/ sr.it >= MaxIterations

\* Entry: the arguments are validated and both ends of the bracket tried.
SearchStart ==
    /\ search.status = "called"
    /\ LET x == search.input
           lo == SearchLo(x)
           hi == SearchHi(x)
       IN  search' =
             IF ~DeltaValid(x.target_delta) \/ x.target_epsilon.num <= 0
                  \/ x.sample_rate.num <= 0 \/ x.sample_rate.num > x.sample_rate.den
                  \/ lo.num <= 0 \/ ~RatLess(lo, hi) \/ SearchSteps(x) < 1
             THEN [search EXCEPT !.status = "raised", !.err = "InvalidParameterError"]
             ELSE IF ~RatLeq(SearchEps(x, hi), x.target_epsilon)
             THEN [search EXCEPT !.status = "raised", !.err = "CalibrationError"]
             ELSE IF RatLeq(SearchEps(x, lo), x.target_epsilon)
             THEN [search EXCEPT !.status = "raised", !.err = "CalibrationError"]
             ELSE [search EXCEPT !.status = "searching", !.lo = lo, !.hi = hi]
    /\ UNCHANGED <<steps, params, optParams, modules, optimizers, loaders, graph, updates,
                   keepLoader, result>>

\* A variant that keeps the other half of the bracket.
SearchIterate_other_half ==
    /\ search.status = "searching"
    /\ ~SearchStop(search)
    /\ LET mid == RatHalf(RatAdd(search.lo, search.hi))
       IN  search' =
             IF RatLeq(SearchEps(search.input, mid), search.input.target_epsilon)
             THEN [search EXCEPT !.lo = mid, !.it = @ + 1]
             ELSE [search EXCEPT !.hi = mid, !.it = @ + 1]
    /\ UNCHANGED <<steps, params, optParams, modules, optimizers, loaders, graph, updates,
                   keepLoader, result>>

\* One iteration: the half of the bracket that still holds the answer is kept.
SearchIterate ==
    /\ search.status = "searching"
    /\ ~SearchStop(search)
    /\ LET mid == RatHalf(RatAdd(search.lo, search.hi))
       IN  search' =
             IF RatLeq(SearchEps(search.input, mid), search.input.target_epsilon)
             THEN [search EXCEPT !.hi = mid, !.it = @ + 1]
             ELSE [search EXCEPT !.lo = mid, !.it = @ + 1]
    /\ UNCHANGED <<steps, params, optParams, modules, optimizers, loaders, graph, updates,
                   keepLoader, result>>

\* Exit: the upper end of the bracket is returned.
SearchReturn ==
    /\ search.status = "searching"
    /\ SearchStop(search)
    /\ search' = [search EXCEPT !.status = "returned", !.ret = search.hi]
    /\ UNCHANGED <<steps, params, optParams, modules, optimizers, loaders, graph, updates,
                   keepLoader, result>>

InitSearch ==
    /\ Constructed /\ keepLoader = FALSE /\ optParams = ParamIds
    /\ \A p \in ParamIds : params[p].requires_grad
    /\ \E x \in SearchInputs : search = SearchCalled(x)

NextSearch == SearchStart \/ SearchIterate \/ SearchReturn

SpecSearch == InitSearch /\ [][NextSearch]_vars

\* The search runs on the caller's thread until it returns or raises.
FairSpecSearch == SpecSearch /\ WF_vars(NextSearch)

-----------------------------------------------------------------------------
(* Properties of a training run *)

IsPrefix(a, b) == Len(a) <= Len(b) /\ SubSeq(b, 1, Len(a)) = a

\* The base sample rate of optimizer o: 1 / number of batches of the data
\* loader returned by the make_private call that created it.
BaseSampleRate(o) == Rate(1, loaders[o].len)

\* The entry a real step of optimizer o is to record.
WindowEntry(o) ==
    [noise_multiplier |-> optimizers[o].noise_multiplier,
     sample_rate |-> Rate(BaseSampleRate(o).num * optimizers[o].accumulated_iterations,
                          BaseSampleRate(o).den)]

Recordable(o) ==
    /\ optimizers[o].noise_multiplier.num > 0
    /\ optimizers[o].accumulated_iterations * BaseSampleRate(o).num <= BaseSampleRate(o).den

\* C1 as stated: for every k >= 1 and every base sample rate, a real step
\* after a window of k virtual steps appends exactly one PrivacyStep, with
\* the optimizer's noise multiplier and sample_rate = base_sample_rate * k.
C1_EveryWindowRecorded ==
    [][\A o \in 1..Len(optimizers) :
          (Step(o) /\ optimizers[o].accumulated_iterations >= 1)
              => steps' = Append(steps, WindowEntry(o))]_vars

\* C1 amended: a real step after a window of k >= 1 virtual steps appends
\* exactly one PrivacyStep (noise_multiplier, base_sample_rate * k) when the
\* noise multiplier is positive and base_sample_rate * k <= 1; otherwise
\* record_step raises InvalidParameterError and the ledger is unchanged.
C1_ValidWindowRecorded ==
    [][\A o \in 1..Len(optimizers) :
          (Step(o) /\ optimizers[o].accumulated_iterations >= 1)
              => IF Recordable(o)
                 THEN steps' = Append(steps, WindowEntry(o)) /\ result'.err = NoError
                 ELSE steps' = steps /\ result'.err = "InvalidParameterError"]_vars

\* A window of two virtual steps has been recorded as one entry.
C1_Witness ==
    /\ Len(steps) >= 1
    /\ steps[Len(steps)].sample_rate = Rate(2, 2)
    /\ result = Outcome(NoError, None)
    /\ \A o \in 1..Len(optimizers) : optimizers[o].accumulated_iterations = 0

StaleGradient == \E p \in ParamIds : params[p].requires_grad /\ params[p].has_noise

\* C3: on every forward pass, if any trainable parameter carries an
\* already-noised gradient the pre-forward hook raises, wherever that
\* parameter stands in the parameter order and whatever per-example
\* gradients the others carry; no virtual step is made, no gradient is
\* cleared and the ledger is unchanged.
C3_StaleGradientAlwaysRaises ==
    [][\A m \in 1..Len(modules) :
          (Forward(m) /\ StaleGradient)
              => /\ result'.err = "ValueError"
                 /\ params' = params
                 /\ optimizers' = optimizers
                 /\ steps' = steps]_vars

\* C4: a real step with accumulated_iterations = 0 is a no-op: the ledger
\* is unchanged, nothing is raised, no parameter update is made.
C4_EmptyStepIsNoOp ==
    [][\A o \in 1..Len(optimizers) :
          (Step(o) /\ optimizers[o].accumulated_iterations = 0)
              => /\ steps' = steps
                 /\ result'.err = NoError
                 /\ updates' = updates
                 /\ optimizers' = optimizers]_vars

\* After a recorded real step nothing is accumulated: a second real step
\* is the no-op.
C4_Witness ==
    /\ Len(steps) = 1
    /\ \A o \in 1..Len(optimizers) : optimizers[o].accumulated_iterations = 0
    /\ \A p \in ParamIds : ~params[p].grad_sample
    /\ result = Outcome(NoError, None)

ValidStep(e) ==
    /\ e.noise_multiplier.num > 0
    /\ e.sample_rate.num > 0
    /\ e.sample_rate.num <= e.sample_rate.den

\* C5: record_step raises InvalidParameterError and leaves the ledger
\* unchanged when noise_multiplier <= 0, sample_rate <= 0 or
\* sample_rate > 1; so every ledger entry has noise_multiplier > 0 and
\* 0 < sample_rate <= 1, the entries recorded by the step hook included.
C5_LedgerEntriesValid ==
    /\ [](\A i \in 1..Len(steps) : ValidStep(steps[i]))
    /\ [][\A o \in 1..Len(optimizers) :
             (Step(o) /\ optimizers[o].accumulated_iterations >= 1 /\ ~ValidStep(WindowEntry(o)))
                 => steps' = steps /\ result'.err = "InvalidParameterError"]_vars

\* record_step has rejected a step while the ledger holds an earlier one.
C5_Witness == result.err = "InvalidParameterError" /\ Len(steps) >= 1

\* C6: for a fixed delta and a non-empty ledger, the epsilon get_epsilon
\* returns does not decrease when a PrivacyStep is appended.
C6_EpsilonNonDecreasing ==
    [][\A delta \in ValidDeltas :
          (steps # <<>> /\ Len(steps') = Len(steps) + 1)
              => RatLeq(get_epsilon(steps, delta).ret, get_epsilon(steps', delta).ret)]_vars

\* get_epsilon has answered on a ledger of two steps.
C6_Witness ==
    /\ Len(steps) = 2
    /\ result.err = NoError
    /\ "eps" \in DOMAIN result.val

\* C7: the ledger is append-only: each call leaves the previous ledger as a
\* prefix and adds at most one entry; a recordable real step adds exactly
\* one entry at the end even when an identical entry is already there;
\* get_epsilon leaves the ledger unchanged.
C7_LedgerAppendOnly ==
    [][/\ IsPrefix(steps, steps')
       /\ Len(steps') <= Len(steps) + 1
       /\ \A o \in 1..Len(optimizers) :
             (Step(o) /\ optimizers[o].accumulated_iterations >= 1 /\ Recordable(o))
                 => steps' = Append(steps, WindowEntry(o))
       /\ \A delta \in Deltas : GetEpsilon(delta) => steps' = steps]_vars

\* The ledger holds the same (noise_multiplier, sample_rate) twice.
C7_Witness == Len(steps) >= 2 /\ steps[1] = steps[2]

-----------------------------------------------------------------------------
(* Properties of wrapping *)

Wrapped(x) == x.kind \in {"GradSampleModule", "DPOptimizer", "DPDataLoader"}

\* C8 as stated: given a model, an optimizer or a data loader that is
\* already wrapped, make_private returns that same wrapper, not a new or
\* nested one.
C8_RewrapReturnsSameWrapper ==
    [][\A module \in ModuleRefs, optimizer \in OptimizerRefs,
          data_loader \in SetupLoaders \cup DPLoaderRefs,
          noise_multiplier \in SetupNoiseMultipliers, max_grad_norm \in ClipNorms,
          loss_reduction \in LossReductions :
          MakePrivate(module, optimizer, data_loader, noise_multiplier, max_grad_norm,
                      loss_reduction)
              => /\ Wrapped(module) => result'.val.module = module
                 /\ Wrapped(optimizer) => result'.val.optimizer = optimizer
                 /\ Wrapped(data_loader) => result'.val.data_loader = data_loader]_vars

\* C8 amended: given an already wrapped model or data loader, make_private
\* returns that same wrapper and creates none; given an already wrapped
\* optimizer it returns a new DPOptimizer around the optimizer the given
\* wrapper holds, so wrappers are never nested, and the given wrapper is
\* left as it was.
C8_RewrapNeverNests ==
    [][\A module \in ModuleRefs, optimizer \in OptimizerRefs,
          data_loader \in SetupLoaders \cup DPLoaderRefs,
          noise_multiplier \in SetupNoiseMultipliers, max_grad_norm \in ClipNorms,
          loss_reduction \in LossReductions :
          MakePrivate(module, optimizer, data_loader, noise_multiplier, max_grad_norm,
                      loss_reduction)
              => /\ Wrapped(module)
                        => result'.val.module = module /\ Len(modules') = Len(modules)
                 /\ Wrapped(data_loader)
                        => result'.val.data_loader = data_loader /\ loaders' = loaders
                 /\ Wrapped(optimizer)
                        => /\ result'.val.optimizer = DPOptRef(Len(optimizers) + 1)
                           /\ Len(optimizers') = Len(optimizers) + 1
                           /\ optimizers'[Len(optimizers')].optimizer
                                  = optimizers[optimizer.id].optimizer
                           /\ ~Wrapped(optimizers'[Len(optimizers')].optimizer)
                           /\ SubSeq(optimizers', 1, Len(optimizers)) = optimizers]_vars

\* make_private has been called a second time on the wrappers the first
\* call returned.
C8_Witness ==
    /\ Len(modules) = 1 /\ Len(loaders) = 1 /\ Len(optimizers) = 2
    /\ modules[1].hooks = <<1, 2>>
    /\ result.err = NoError
    /\ result.val.module = GSMRef(1)
    /\ result.val.data_loader.kind = "DPDataLoader" /\ result.val.data_loader.id = 1
    /\ result.val.optimizer = DPOptRef(2)
    /\ optimizers[2].optimizer = RawOptimizer

\* C9: for every data loader with number_of_batches >= 1, make_private
\* takes sample_rate = 1 / number_of_batches and expected_batch_size =
\* floor(dataset_size / number_of_batches) from the wrapped data loader
\* and hands that expected_batch_size to the wrapped optimizer.
C9_ExpectedBatchSizeIsFloor ==
    [][\A module \in ModuleRefs, optimizer \in OptimizerRefs,
          data_loader \in SetupLoaders \cup DPLoaderRefs,
          noise_multiplier \in SetupNoiseMultipliers, max_grad_norm \in ClipNorms,
          loss_reduction \in LossReductions :
          MakePrivate(module, optimizer, data_loader, noise_multiplier, max_grad_norm,
                      loss_reduction)
              => LET wrapped == result'.val.data_loader
                     optim == optimizers'[result'.val.optimizer.id]
                 IN  /\ wrapped.len >= 1
                     /\ optim.step_hook = Rate(1, wrapped.len)
                     /\ optim.expected_batch_size = wrapped.dataset \div wrapped.len]_vars

\* C10: make_private_with_epsilon takes sample_rate = 1 / number_of_batches,
\* calibrates the noise multiplier for epochs * number_of_batches steps at
\* that rate, and then does exactly what make_private does with that noise
\* multiplier and the same other arguments; the schedule re-accounted at
\* the calibrated noise multiplier meets the target.  When calibration
\* fails the error is raised and nothing is wrapped.
C10_WithEpsilonDelegates ==
    [][\A module \in ModuleRefs, optimizer \in OptimizerRefs,
          data_loader \in CalibrationLoaders \cup CalibrationWrappers,
          target_epsilon \in TargetEpsilons, target_delta \in TargetDeltas,
          epochs \in Epochs, max_grad_norm \in ClipNorms,
          loss_reduction \in LossReductions, bounds \in SigmaBounds :
          MakePrivateWithEpsilon(module, optimizer, data_loader, target_epsilon,
                                 target_delta, epochs, max_grad_norm, loss_reduction,
                                 bounds.min, bounds.max)
              => LET number_of_batches == data_loader.len
                     sigma == get_noise_multiplier(target_epsilon, target_delta,
                                                   Rate(1, number_of_batches), epochs,
                                                   bounds.min, bounds.max)
                     r == make_private(Heap, keepLoader, module, optimizer, data_loader,
                                       sigma.ret, max_grad_norm, loss_reduction)
                 IN  IF sigma.err # NoError
                     THEN /\ result' = Outcome(sigma.err, None)
                          /\ <<modules', optimizers', loaders'>> = <<modules, optimizers, loaders>>
                     ELSE /\ result' = Outcome(NoError, r.ret)
                          /\ <<modules', optimizers', loaders'>>
                                 = <<r.modules, r.optimizers, r.loaders>>
                          /\ RatLeq(ScheduleEps(sigma.ret, target_delta,
                                                Rate(1, number_of_batches),
                                                epochs * number_of_batches),
                                    target_epsilon)]_vars

\* A make_private_with_epsilon call has wrapped the optimizer with a noise
\* multiplier that only calibration produces.
C10_Witness ==
    /\ result.err = NoError
    /\ Len(optimizers) >= 1
    /\ optimizers[Len(optimizers)].noise_multiplier \notin SetupNoiseMultipliers
    /\ result.val.optimizer = DPOptRef(Len(optimizers))

-----------------------------------------------------------------------------
(* Properties of get_epsilon *)

\* C11: get_epsilon(delta) raises InvalidParameterError when delta <= 0 or
\* delta >= 1 and EmptyLedgerError when no real step has been recorded
\* (one of the two when both apply); in both cases the ledger, the
\* optimizers and the gradients are left as they were.
C11_GetEpsilonErrors ==
    [][\A delta \in Deltas :
          GetEpsilon(delta)
              => /\ (~DeltaValid(delta) /\ steps # <<>>)
                        => result'.err = "InvalidParameterError"
                 /\ (DeltaValid(delta) /\ steps = <<>>)
                        => result'.err = "EmptyLedgerError"
                 /\ (~DeltaValid(delta) /\ steps = <<>>)
                        => result'.err \in {"InvalidParameterError", "EmptyLedgerError"}
                 /\ (DeltaValid(delta) /\ steps # <<>>) => result'.err = NoError
                 /\ steps' = steps /\ optimizers' = optimizers /\ params' = params]_vars

\* get_epsilon was asked before any real step, with virtual steps pending.
C11_Witness ==
    /\ result.err = "EmptyLedgerError"
    /\ steps = <<>>
    /\ \E o \in 1..Len(optimizers) : optimizers[o].accumulated_iterations >= 1

-----------------------------------------------------------------------------
(* Properties of the calibration search *)

\* The noise multipliers the search result is compared with.
SigmaGrid == {Rat(k, 8) : k \in 1..64}

\* sigma lies in the bracket the call was given and meets the target.
MeetsTarget(x, sigma) ==
    /\ RatLeq(SearchLo(x), sigma) /\ RatLeq(sigma, SearchHi(x))
    /\ RatLeq(SearchEps(x, sigma), x.target_epsilon)

\* What a second call with the same arguments returns.
SecondCall(x) ==
    find_noise_multiplier(x.target_epsilon, x.target_delta, x.sample_rate, x.epochs,
                          x.bounds.min, x.bounds.max)

-----------------------------------------------------------------------------
(* Properties of calibrated wrapping *)

\* For each calibration the calls ask for: whether the schedule of
\* epochs / sample_rate steps, accounted at each end of the bracket, meets
\* the target.
BracketEnds ==
    [x \in CalibrationInputs |->
        LET sigma_min == IF x.bounds.min = None THEN DefaultSigmaMin ELSE x.bounds.min
            sigma_max == IF x.bounds.max = None THEN DefaultSigmaMax ELSE x.bounds.max
            n_steps == (x.epochs * x.sample_rate.den) \div x.sample_rate.num
        IN  [min_meets |-> RatLeq(ScheduleEps(sigma_min, x.target_delta, x.sample_rate,
                                              n_steps), x.target_epsilon),
             max_meets |-> RatLeq(ScheduleEps(sigma_max, x.target_delta, x.sample_rate,
                                              n_steps), x.target_epsilon)]] @@ <<>>

\* C13: when epsilon at sigma_max still exceeds target_epsilon, or the
\* target is already met at sigma_min, calibration raises CalibrationError
\* and returns no boundary value; make_private_with_epsilon then wraps
\* nothing and registers no hook.
C13_CalibrationErrorWrapsNothing ==
    [][\A module \in ModuleRefs, optimizer \in OptimizerRefs,
          data_loader \in CalibrationLoaders \cup CalibrationWrappers,
          target_epsilon \in TargetEpsilons, target_delta \in TargetDeltas,
          epochs \in Epochs, max_grad_norm \in ClipNorms,
          loss_reduction \in LossReductions, bounds \in SigmaBounds :
          (/\ MakePrivateWithEpsilon(module, optimizer, data_loader, target_epsilon,
                                     target_delta, epochs, max_grad_norm, loss_reduction,
                                     bounds.min, bounds.max)
           /\ LET ends == BracketEnds[[target_epsilon |-> target_epsilon,
                                       target_delta |-> target_delta,
                                       sample_rate |-> Rate(1, data_loader.len),
                                       epochs |-> epochs, bounds |-> bounds]]
              IN  ~ends.max_meets \/ ends.min_meets)
              => /\ result' = Outcome("CalibrationError", None)
                 /\ modules' = modules
                 /\ optimizers' = optimizers
                 /\ loaders' = loaders]_vars

\* A calibration has failed on an engine that had wrapped once before.
C13_Witness ==
    /\ result = Outcome("CalibrationError", None)
    /\ Len(optimizers) = 1 /\ Len(modules) = 1
    /\ modules[1].hooks = <<1>>

\* C14: the calibration search always terminates: for every input it ends
\* with a result or an error; it never makes more than the bounded number
\* of iterations, and it stops as soon as the bracket is narrower than the
\* tolerance or the iterations are used up, whichever comes first.
C14_SearchTerminates ==
    /\ <>(search.status \in {"returned", "raised"})
    /\ [](search.it <= MaxIterations)
    /\ [][(search.status = "searching"
             /\ (RatLess(RatSub(search.hi, search.lo), Tolerance)
                   \/ search.it >= MaxIterations))
              => search'.status = "returned"]_vars
    /\ [][search'.status = "raised"
              => search'.err \in {"InvalidParameterError", "CalibrationError"}]_vars

\* A search has returned on the iteration bound, its bracket still wider
\* than the tolerance.
C14_Witness ==
    /\ search.status = "returned"
    /\ search.it = MaxIterations
    /\ ~RatLess(RatSub(search.hi, search.lo), Tolerance)

-----------------------------------------------------------------------------
(* Properties of the hooks *)

\* A trainable parameter carries per-example gradients.
HasGradSample == \E p \in ParamIds : params[p].requires_grad /\ params[p].grad_sample

\* C15: on a forward pass with no stale gradient, if a trainable parameter
\* carries per-example gradients the pre-forward hook makes exactly one
\* virtual step (accumulated_iterations grows by exactly 1) and then
\* clears the per-example gradients; if none does, the hook makes no
\* virtual step, clears nothing and leaves accumulated_iterations as it is.
C15_HookAccumulatesOnce ==
    [][\A m \in 1..Len(modules) :
          (Forward(m) /\ ~StaleGradient)
              => /\ result'.err = NoError
                 /\ IF HasGradSample
                    THEN /\ \E o \in 1..Len(optimizers) :
                               /\ optimizers'[o].accumulated_iterations
                                      = optimizers[o].accumulated_iterations + 1
                               /\ \A q \in 1..Len(optimizers) \ {o} :
                                     optimizers'[q] = optimizers[q]
                         /\ \A p \in ParamIds : ~params'[p].grad_sample
                    ELSE params' = params /\ optimizers' = optimizers
                 /\ steps' = steps]_vars

\* The hook has made a virtual step: one iteration is accumulated, the
\* per-example gradients are gone and nothing is recorded yet.
C15_Witness ==
    /\ graph
    /\ steps = <<>>
    /\ result = Outcome(NoError, None)
    /\ \E o \in 1..Len(optimizers) : optimizers[o].accumulated_iterations = 1
    /\ \A p \in ParamIds : ~params[p].grad_sample /\ ~params[p].has_noise

C17_UnclearedGradientRaises ==
    [][\A m \in 1..Len(modules) :
          Forward(m)
              => IF \E p \in ParamIds : params[p].requires_grad /\ params[p].has_noise
                 THEN /\ result'.err = "ValueError"
                      /\ \A o \in 1..Len(optimizers) :
                            optimizers'[o].accumulated_iterations
                                = optimizers[o].accumulated_iterations
                 ELSE result'.err = NoError /\ graph']_vars

\* C18: the engine has one ledger. No make_private call replaces or resets
\* it, every optimizer any make_private call returned appends its completed
\* real steps to it, entries are never removed or rewritten, and its length
\* is the number of real steps all those optimizers completed.
C18_OneLedgerForAllOptimizers ==
    /\ [](Len(steps) = updates)
    /\ [][/\ IsPrefix(steps, steps')
          /\ Len(steps') - Len(steps) = updates' - updates
          /\ Len(optimizers') > Len(optimizers) => steps' = steps
          /\ \A o \in 1..Len(optimizers) :
                LET k == optimizers[o].accumulated_iterations
                IN  (Step(o) /\ k >= 1 /\ result'.err = NoError)
                       => steps' = Append(steps,
                                          [noise_multiplier |-> optimizers[o].noise_multiplier,
                                           sample_rate |-> Rate(optimizers[o].step_hook.num * k,
                                                                optimizers[o].step_hook.den)])]_vars

\* The optimizers of two make_private calls have each recorded a real step
\* and both entries stand in the ledger.
C18_Witness ==
    /\ Len(optimizers) = 2
    /\ Len(steps) = 2
    /\ steps[1].noise_multiplier # steps[2].noise_multiplier

\* C19: once make_private has been called again on the wrappers an earlier
\* call returned, the per-example gradients the pre-forward hook finds on
\* the next forward pass are accumulated exactly once, into the optimizer of
\* the latest call and not into a superseded one.
C19_RewrapAccumulatesIntoLatest ==
    [][\A m \in 1..Len(modules) :
          (Forward(m) /\ Len(modules[m].hooks) >= 2 /\ ~StaleGradient /\ HasGradSample)
              => LET latest == modules[m].hooks[Len(modules[m].hooks)]
                 IN  \A o \in 1..Len(optimizers) :
                        optimizers'[o].accumulated_iterations
                            = optimizers[o].accumulated_iterations
                                  + (IF o = latest THEN 1 ELSE 0)]_vars

====
